---- MODULE Spec2Model ----
(***************************************************************************)
(* Model of the household inventory app (src/app.py): the password/cookie  *)
(* gate check_password, the page run of the Streamlit script, and the four *)
(* store operations (load_data, insert, update_quantity, delete_item) that *)
(* several visitors run against one shared table.                          *)
(*                                                                         *)
(* A page run is the script executed top to bottom.  It is cut into steps  *)
(* at the store round trips, because those are the points where another    *)
(* visitor's run can interleave:                                           *)
(*   event (callback, gate, logout)  -> "form"                             *)
(*   Form : load_data at line 224, insert at line 246                      *)
(*   Main : load_data at line 252, the button that was clicked             *)
(*   Write: the update at line 212 or the delete at line 217               *)
(*                                                                         *)
(* Library calls are modelled by their contract: cookie_manager.get/set/   *)
(* delete read and write the browser's cookie at once, and a supabase      *)
(* query with .eq("id", x) acts on the rows that match, possibly none.     *)
(***************************************************************************)
EXTENDS Integers, Sequences, FiniteSets, TLC

(* ---- bounds of the model ---- *)
MaxIds == 1         \* SpecStore: ids the store hands out in one behaviour
MaxQty == 3         \* SpecStore: no increment starts at or above this quantity
ListMaxIds == 3     \* SpecList: ids the store hands out
RaceMaxIds == 2     \* SpecRace: ids the store hands out
RaceMaxQty == 5     \* SpecRace: no increment starts at or above this quantity
GateMaxIds == 1     \* Spec: ids the store hands out
MaxWrong == 2       \* wrong passwords counted per session
BigDelta == 9       \* range of deltas the pure clamp is checked on

Max(a, b) == IF a >= b THEN a ELSE b

Visitors == {"v1", "v2"}
Ids == 1..Max(MaxIds, GateMaxIds)

(* Python's None and a present value *)
None == <<>>
Some(x) == <<x>>

(* passwords a visitor types, and the cookie values a browser may hold *)
Passwords == {"pw", "bad"}
\* what can be typed into the prompt: a password, or the field cleared again
Typed == Passwords \cup {""}

VARIABLES
    secrets,        \* st.secrets["APP_PASSWORD"]: None when the key is missing
    environ,        \* os.environ.get("APP_PASSWORD"): None when unset
    cookie,         \* cookie[v]: the browser's auth_token cookie, or None
    auth_success,   \* auth_success[v]: st.session_state.auth_success, None if not in session_state
    password_input, \* password_input[v]: st.session_state["password_input"] ("" when the widget is new)
    tries,          \* tries[v]: history of v's session: .ok the configured secret was typed into the
                    \* prompt, .wrong how many other inputs the prompt got (counted up to MaxWrong)
                    \* before the run that is starting
    err,            \* err[v]: st.error("パスワードが違います") was shown by the last callback
    gate,           \* gate[v]: what check_password did in v's current/last run: "none","stop","false","true"
    view,           \* view[v]: what the last finished run rendered: "none","halt","prompt","page"
    shown,          \* shown[v]: ids whose minus/plus/delete buttons the last finished run rendered
    pc,             \* pc[v]: "idle", "form", "main", "write"
    ev,             \* ev[v]: the widget event the current run is processing
    pend,           \* pend[v]: arguments of the update_quantity/delete_item call about to hit the store
    response,       \* response[v]: rows in response.data of v's last update/delete, -1 before any
    overlap,        \* overlap[v]: history of the other visitor's write landing between v's read and write
    rows,           \* the table household_inventory: a set of row records
    used,           \* ids the store has ever assigned
    clock           \* the store's clock, read as created_at by an insert

vars == <<secrets, environ, cookie, auth_success, password_input, tries, err, gate,
          view, shown, pc, ev, pend, response, overlap, rows, used, clock>>

storeVars == <<rows, used, clock>>

(* ---- the access gate ---- *)

\* line 158
SESSION_TOKEN(correct_password) == "auth_" \o correct_password

CookieValues == {None} \cup {Some(SESSION_TOKEN(p)) : p \in Passwords}

\* `not correct_password` of line 152: None and "" are both falsy
Falsy(x) == x = None \/ x = Some("")

\* lines 148-154: st.secrets first, os.environ as the fallback; None stands for st.stop()
correct_password ==
    IF secrets # None THEN secrets
    ELSE IF Falsy(environ) THEN None
    ELSE environ

\* variant: the st.stop() of line 154 is missing, None is formatted into the token
check_password_NoStop(auth_token, flag) ==
    LET cp == IF correct_password = None THEN "None" ELSE correct_password[1]
        f == IF flag = None THEN Some(FALSE) ELSE flag
    IN  IF auth_token = Some(SESSION_TOKEN(cp))
        THEN [ret |-> "true", auth_success |-> flag, prompt |-> FALSE]
        ELSE IF ~f[1]
        THEN [ret |-> "false", auth_success |-> f, prompt |-> TRUE]
        ELSE [ret |-> "true", auth_success |-> f, prompt |-> FALSE]

\* lines 138-187, without the callback: the return value ("stop" is the st.stop() of
\* line 154), the session flag it leaves, and whether the text_input was rendered
check_password(auth_token, flag) ==
    IF correct_password = None
    THEN [ret |-> "stop", auth_success |-> flag, prompt |-> FALSE]
    ELSE IF auth_token = Some(SESSION_TOKEN(correct_password[1]))
    THEN [ret |-> "true", auth_success |-> flag, prompt |-> FALSE]
    ELSE LET f == IF flag = None THEN Some(FALSE) ELSE flag
         IN  IF ~f[1]
             THEN [ret |-> "false", auth_success |-> f, prompt |-> TRUE]
             ELSE [ret |-> "true", auth_success |-> f, prompt |-> FALSE]

\* variant: the input is compared with the environment's value, not with correct_password
password_entered_Environ(input) ==
    IF Some(input) = environ
    THEN [auth_success |-> Some(TRUE), set_cookie |-> TRUE, error |-> FALSE]
    ELSE [auth_success |-> Some(FALSE), set_cookie |-> FALSE, error |-> TRUE]

\* lines 167-175: the on_change callback of the text_input
password_entered(input) ==
    IF Some(input) = correct_password
    THEN [auth_success |-> Some(TRUE), set_cookie |-> TRUE, error |-> FALSE]
    ELSE [auth_success |-> Some(FALSE), set_cookie |-> FALSE, error |-> TRUE]

\* variant: the st.stop() of line 191 is missing
Proceeds_NoStop(g) == g.ret # "stop"

\* lines 190-191: a run goes on past the gate only when check_password returned True
Proceeds(g) == g.ret = "true"

NoEvent == [kind |-> "none"]
NoPend == [op |-> "none"]
NoTries == [ok |-> FALSE, wrong |-> 0]

\* The script from its first line to the gate's verdict, for a run of visitor v that
\* processes event e with the given cookie, session flag, widget value and error,
\* and (lines 190-191) st.stop() unless the gate let the run through.
BeginRun(v, e, ck, flag, input, error) ==
    LET g == check_password(ck, flag) IN
    /\ cookie' = [cookie EXCEPT ![v] = ck]
    /\ auth_success' = [auth_success EXCEPT ![v] = g.auth_success]
    /\ err' = [err EXCEPT ![v] = error]
    /\ gate' = [gate EXCEPT ![v] = g.ret]
    /\ pend' = [pend EXCEPT ![v] = NoPend]
    /\ IF Proceeds(g)
       THEN /\ pc' = [pc EXCEPT ![v] = "form"]
            /\ ev' = [ev EXCEPT ![v] = e]
            \* a widget that is not rendered loses its state
            /\ password_input' = [password_input EXCEPT ![v] = ""]
            \* nothing of the page is rendered yet
            /\ view' = [view EXCEPT ![v] = "none"]
            /\ shown' = [shown EXCEPT ![v] = {}]
       ELSE /\ pc' = [pc EXCEPT ![v] = "idle"]
            /\ ev' = [ev EXCEPT ![v] = NoEvent]
            /\ password_input' = [password_input EXCEPT ![v] = IF g.prompt THEN input ELSE ""]
            /\ view' = [view EXCEPT ![v] = IF g.ret = "stop" THEN "halt" ELSE "prompt"]
            /\ shown' = [shown EXCEPT ![v] = {}]

\* st.rerun() (lines 202, 213, 218, 247): the script starts over with no event
Rerun(v, ck, flag) == BeginRun(v, NoEvent, ck, flag, "", FALSE)

(* ---- the store adapter ---- *)

IdsOf(S) == {r.id : r \in S}
RowsOf(items) == {items[i] : i \in 1..Len(items)}

\* .order("created_at", desc=True): the newest row first
RECURSIVE OrderDesc(_)
OrderDesc(S) ==
    IF S = {} THEN <<>>
    ELSE LET newest == CHOOSE r \in S : \A x \in S : x.created_at <= r.created_at
         IN  <<newest>> \o OrderDesc(S \ {newest})

\* variant: desc=True is missing
RECURSIVE OrderAsc(_)
OrderAsc(S) ==
    IF S = {} THEN <<>>
    ELSE LET oldest == CHOOSE r \in S : \A x \in S : x.created_at >= r.created_at
         IN  <<oldest>> \o OrderAsc(S \ {oldest})

load_data_Ascending(table) == OrderAsc(table)

\* lines 205-207: select("*") of the whole table, ordered
load_data(table) == OrderDesc(table)

\* variant: the max(0, ...) is missing
new_quantity_NoClamp(current_quantity, change) == current_quantity + change

\* line 211
new_quantity(current_quantity, change) == Max(0, current_quantity + change)

\* variant: an upsert, which writes a row when none matches
update_eq_Upsert(table, item_id, q) ==
    IF \E r \in table : r.id = item_id
    THEN {IF r.id = item_id THEN [r EXCEPT !.quantity = q] ELSE r : r \in table}
    ELSE table \cup {[id |-> item_id, category |-> "other", name |-> "", quantity |-> q,
                      notes |-> "", created_at |-> 0]}

\* line 212: update({"quantity": q}).eq("id", item_id) rewrites the rows that match
update_eq(table, item_id, q) ==
    {IF r.id = item_id THEN [r EXCEPT !.quantity = q] ELSE r : r \in table}

\* line 217: delete().eq("id", item_id) removes the rows that match
delete_eq(table, item_id) == {r \in table : r.id # item_id}

\* response.data of an update or delete: the rows the filter matched
Matched(table, item_id) == Cardinality({r \in table : r.id = item_id})

\* line 226 ("食料品", "日用品", "消耗品", "その他")
default_categories == {"food", "daily", "supplies", "other"}

\* lines 225-227: the options of the category selectbox
category_options(existing_data) ==
    default_categories \cup {r.category : r \in RowsOf(existing_data)}

\* line 233: st.number_input("初期数量", min_value=1, value=1)
min_value == 1
value == 1

\* variant: min_value is missing
number_input_NoMin(typed) == typed

\* line 233: the widget commits a typed number only if it is at least min_value;
\* anything below is refused and the widget keeps its value
number_input(typed) == IF typed < min_value THEN value ELSE typed

\* line 239
final_category(category, new_category) ==
    IF new_category # "" THEN new_category ELSE category

\* lines 240-245, with the id and created_at the store assigns
NewRow(id, e, now) ==
    [id |-> id,
     category |-> final_category(e.category, e.new_category),
     name |-> e.name,
     quantity |-> number_input(e.typed),
     notes |-> e.notes,
     created_at |-> now]

(* what visitors type into the add form *)
FormInputs ==
    {[category |-> "food", new_category |-> "", name |-> "", typed |-> 1, notes |-> ""],
     [category |-> "food", new_category |-> "", name |-> "Soy Sauce", typed |-> 1, notes |-> ""],
     [category |-> "other", new_category |-> "spice", name |-> "Salt", typed |-> 0, notes |-> "memo"],
     [category |-> "daily", new_category |-> "", name |-> "Salt", typed |-> 5, notes |-> "memo"],
     [category |-> "daily", new_category |-> "", name |-> "", typed |-> 0, notes |-> ""]}

GateFormInputs == {f \in FormInputs : f.typed = 1}
StoreFormInputs == {f \in FormInputs : f.typed \in {0, 1} /\ f.name # ""}
RaceFormInputs == {f \in FormInputs : f.typed = 5}

(* ---- initial state ---- *)

\* the configurations of APP_PASSWORD: <<st.secrets, os.environ>>
Configs == {<<None, None>>, <<None, Some("")>>, <<Some("pw"), Some("bad")>>}
StoreConfigs == {<<None, Some("pw")>>}

\* nobody has visited yet and the table is empty
InitWith(configs) ==
    /\ \E c \in configs : secrets = c[1] /\ environ = c[2]
    /\ cookie = [v \in Visitors |-> None]
    /\ auth_success = [v \in Visitors |-> None]
    /\ password_input = [v \in Visitors |-> ""]
    /\ tries = [v \in Visitors |-> NoTries]
    /\ err = [v \in Visitors |-> FALSE]
    /\ gate = [v \in Visitors |-> "none"]
    /\ view = [v \in Visitors |-> "none"]
    /\ shown = [v \in Visitors |-> {}]
    /\ pc = [v \in Visitors |-> "idle"]
    /\ ev = [v \in Visitors |-> NoEvent]
    /\ pend = [v \in Visitors |-> NoPend]
    /\ response = [v \in Visitors |-> -1]
    /\ overlap = [v \in Visitors |-> "none"]
    /\ rows = {}
    /\ used = {}
    /\ clock = 1

Init == InitWith(Configs)

(* ---- events: what a visitor does to a page that is at rest ---- *)

\* any rerun of the script in the same session that carries no widget event
Visit(v) ==
    /\ pc[v] = "idle"
    /\ BeginRun(v, NoEvent, cookie[v], auth_success[v], password_input[v], FALSE)
    /\ UNCHANGED <<secrets, environ, tries, response, overlap, storeVars>>

\* a new browser session: st.session_state starts empty, the cookie is kept
NewVisit(v) ==
    /\ pc[v] = "idle"
    /\ BeginRun(v, NoEvent, cookie[v], None, "", FALSE)
    /\ tries' = [tries EXCEPT ![v] = NoTries]
    /\ response' = [response EXCEPT ![v] = -1]
    /\ UNCHANGED <<secrets, environ, overlap, storeVars>>

\* the browser's cookie changes outside the app: it expires, is cleared, or is
\* set by hand to some value
SetCookie(v, c) ==
    /\ pc[v] = "idle"
    /\ c # cookie[v]
    /\ cookie' = [cookie EXCEPT ![v] = c]
    /\ UNCHANGED <<secrets, environ, auth_success, password_input, tries, err, gate,
                   view, shown, pc, ev, pend, response, overlap, storeVars>>

\* lines 178-183: a new value typed into the prompt runs password_entered
\* (on_change), then the script
SubmitPassword(v, p) ==
    /\ pc[v] = "idle"
    /\ view[v] = "prompt"
    /\ p # password_input[v]
    /\ LET cb == password_entered(p)
           ck == IF cb.set_cookie THEN Some(SESSION_TOKEN(correct_password[1])) ELSE cookie[v]
       IN  BeginRun(v, NoEvent, ck, cb.auth_success, p, cb.error)
    /\ tries' = [tries EXCEPT ![v] =
           IF Some(p) = correct_password
           THEN [@ EXCEPT !.ok = TRUE]
           ELSE [@ EXCEPT !.wrong = IF @ < MaxWrong THEN @ + 1 ELSE @]]
    /\ UNCHANGED <<secrets, environ, response, overlap, storeVars>>

\* variant: cookie_manager.delete("auth_token") is missing
ClickLogout_KeepsCookie(v) ==
    /\ pc[v] = "idle"
    /\ view[v] = "page"
    /\ IF Proceeds(check_password(cookie[v], auth_success[v]))
       THEN Rerun(v, cookie[v], Some(FALSE))
       ELSE BeginRun(v, NoEvent, cookie[v], auth_success[v], "", FALSE)
    /\ UNCHANGED <<secrets, environ, tries, response, overlap, storeVars>>

\* lines 196-202: the logout button is reached only after the gate; it deletes the
\* cookie, clears the flag and reruns
ClickLogout(v) ==
    /\ pc[v] = "idle"
    /\ view[v] = "page"
    /\ IF Proceeds(check_password(cookie[v], auth_success[v]))
       THEN Rerun(v, None, Some(FALSE))
       ELSE BeginRun(v, NoEvent, cookie[v], auth_success[v], "", FALSE)
    /\ UNCHANGED <<secrets, environ, tries, response, overlap, storeVars>>

NextId == Cardinality(used) + 1

\* adds that are submitted with a name and have not reached the insert yet
PendingAdds == {w \in Visitors : pc[w] = "form" /\ ev[w].kind = "add" /\ ev[w].name # ""}

\* line 236: the submit button of add_form, with the form's widget values
SubmitAdd(v, f, maxIds) ==
    /\ pc[v] = "idle"
    /\ view[v] = "page"
    /\ f.category \in category_options(load_data(rows))
    /\ f.name = "" \/ Cardinality(used) + Cardinality(PendingAdds) < maxIds
    /\ BeginRun(v, [kind |-> "add"] @@ f, cookie[v], auth_success[v], "", FALSE)
    /\ UNCHANGED <<secrets, environ, tries, response, overlap, storeVars>>

\* lines 279, 283, 287: one of the three buttons of a row the page shows
ClickButton(v, kind, id, maxQty) ==
    /\ pc[v] = "idle"
    /\ view[v] = "page"
    /\ id \in shown[v]
    /\ kind = "plus" => \A r \in rows : r.id = id => r.quantity < maxQty
    /\ BeginRun(v, [kind |-> kind, id |-> id], cookie[v], auth_success[v], "", FALSE)
    /\ UNCHANGED <<secrets, environ, tries, response, overlap, storeVars>>

(* ---- the rest of a run that passed the gate ---- *)

\* lines 221-247: the sidebar form lists the table for its category options and,
\* if it was submitted with a name, inserts one row and reruns
Form(v) ==
    /\ pc[v] = "form"
    /\ response' = [response EXCEPT ![v] = -1]
    /\ tries' = [tries EXCEPT ![v].wrong = 0]
    /\ LET existing_data == load_data(rows)
           e == ev[v]
       IN  IF e.kind = "add" /\ e.name # ""
           THEN \* the store assigns the next id of its identity column and its time
                /\ rows' = rows \cup {NewRow(NextId, e, clock)}
                /\ used' = used \cup {NextId}
                /\ clock' = clock + 1
                /\ Rerun(v, cookie[v], auth_success[v])
                /\ UNCHANGED <<secrets, environ, overlap>>
           ELSE /\ pc' = [pc EXCEPT ![v] = "main"]
                /\ ev' = [ev EXCEPT ![v] = IF e.kind = "add" THEN NoEvent ELSE e]
                /\ UNCHANGED <<secrets, environ, cookie, auth_success, password_input,
                               err, gate, view, shown, pend, overlap, storeVars>>

\* lines 252-288: the main list is loaded and rendered; the button that was
\* clicked, if its row is still listed, calls update_quantity or delete_item
Main(v, maxQty) ==
    /\ pc[v] = "main"
    \* bound of the model: no increment starts from maxQty or more
    /\ ev[v].kind = "plus" => \A r \in rows : r.id = ev[v].id => r.quantity < maxQty
    /\ LET items == load_data(rows)
           e == ev[v]
           hit == {r \in RowsOf(items) : e.kind \in {"minus", "plus", "del"} /\ r.id = e.id}
       IN  IF hit # {}
           THEN LET row == CHOOSE r \in hit : TRUE IN
                /\ pc' = [pc EXCEPT ![v] = "write"]
                /\ pend' = [pend EXCEPT ![v] =
                       IF e.kind = "del"
                       THEN [op |-> "delete", item_id |-> row.id]
                       ELSE [op |-> "update", item_id |-> row.id,
                             current_quantity |-> row.quantity,
                             change |-> IF e.kind = "minus" THEN -1 ELSE 1]]
                /\ overlap' = [overlap EXCEPT ![v] = "clean"]
                /\ UNCHANGED <<view, shown>>
           ELSE /\ pc' = [pc EXCEPT ![v] = "idle"]
                /\ view' = [view EXCEPT ![v] = "page"]
                /\ shown' = [shown EXCEPT ![v] = IdsOf(RowsOf(items))]
                /\ UNCHANGED <<pend, overlap>>
    /\ ev' = [ev EXCEPT ![v] = NoEvent]
    /\ UNCHANGED <<secrets, environ, cookie, auth_success, password_input, tries, err,
                   gate, response, storeVars>>

\* two decrements that read the same quantity of the same row
SameDecrement(p, q) ==
    /\ p.op = "update" /\ q.op = "update"
    /\ p.item_id = q.item_id
    /\ p.change = -1 /\ q.change = -1
    /\ p.current_quantity = q.current_quantity

\* history: what v's write means to a visitor w who has read the row and not yet written
Overlapped(v, w) ==
    IF pc[w] = "write" /\ pend[w].item_id = pend[v].item_id
    THEN IF overlap[w] = "clean" /\ overlap[v] = "clean" /\ SameDecrement(pend[v], pend[w])
         THEN "raced" ELSE "dirty"
    ELSE overlap[w]

\* lines 210-213 and 216-218: the write reaches the store, then st.rerun()
Write(v) ==
    /\ pc[v] = "write"
    /\ LET p == pend[v] IN
       /\ rows' = IF p.op = "delete"
                  THEN delete_eq(rows, p.item_id)
                  ELSE update_eq(rows, p.item_id, new_quantity(p.current_quantity, p.change))
       /\ response' = [response EXCEPT ![v] = Matched(rows, p.item_id)]
    /\ overlap' = [w \in Visitors |-> IF w = v THEN "none" ELSE Overlapped(v, w)]
    /\ Rerun(v, cookie[v], auth_success[v])
    /\ UNCHANGED <<secrets, environ, tries, used, clock>>

\* every event, over a small table
Next ==
    \E v \in Visitors :
        \/ Visit(v)
        \/ NewVisit(v)
        \/ \E c \in CookieValues : SetCookie(v, c)
        \/ \E p \in Typed : SubmitPassword(v, p)
        \/ ClickLogout(v)
        \/ \E f \in GateFormInputs : SubmitAdd(v, f, GateMaxIds)
        \/ \E kind \in {"minus", "del"}, id \in Ids : ClickButton(v, kind, id, MaxQty)
        \/ Form(v)
        \/ Main(v, MaxQty)
        \/ Write(v)

Spec == Init /\ [][Next]_vars

\* The store under visitors who log in and stay: one configured secret, no logout.
InitStore == InitWith(StoreConfigs)

\* every button, over rows that start at quantity 1
NextStore ==
    \E v \in Visitors :
        \/ Visit(v)
        \/ SubmitPassword(v, "pw")
        \/ \E f \in StoreFormInputs : SubmitAdd(v, f, MaxIds)
        \/ \E kind \in {"minus", "plus", "del"}, id \in Ids : ClickButton(v, kind, id, MaxQty)
        \/ Form(v)
        \/ Main(v, MaxQty)
        \/ Write(v)

SpecStore == InitStore /\ [][NextStore]_vars

\* every input of the add form and the delete button, over more rows
NextList ==
    \E v \in Visitors :
        \/ Visit(v)
        \/ SubmitPassword(v, "pw")
        \/ \E f \in FormInputs : SubmitAdd(v, f, ListMaxIds)
        \/ \E id \in 1..ListMaxIds : ClickButton(v, "del", id, MaxQty)
        \/ Form(v)
        \/ Main(v, MaxQty)
        \/ Write(v)

SpecList == InitStore /\ [][NextList]_vars

\* the quantity buttons on rows that start at quantity 5
NextRace ==
    \E v \in Visitors :
        \/ Visit(v)
        \/ SubmitPassword(v, "pw")
        \/ \E f \in RaceFormInputs : SubmitAdd(v, f, RaceMaxIds)
        \/ \E kind \in {"minus", "plus"}, id \in 1..RaceMaxIds : ClickButton(v, kind, id, RaceMaxQty)
        \/ Form(v)
        \/ Main(v, RaceMaxQty)
        \/ Write(v)

SpecRace == InitStore /\ [][NextRace]_vars

(* ---- properties ---- *)

\* the configured secret, as lines 148-151 resolve it (None when there is none)
Secret == IF secrets # None THEN secrets ELSE environ
Configured == Secret # None /\ Secret # Some("")

\* v's browser holds the token derived from the configured secret
TokenOk(v) == Configured /\ cookie[v] = Some("auth_" \o Secret[1])

\* v's session flag is set, and was set by typing the configured secret
FlagOk(v) == auth_success[v] = Some(TRUE) /\ tries[v].ok

\* v's run is past the gate: these are the positions from which a run lists,
\* inserts, updates or deletes
InRun(v) == pc[v] \in {"form", "main", "write"}

\* C1: no inventory operation is performed in a run the gate denied: whenever a
\* visitor's run is at a store operation, the gate returned True in that run, and
\* the visitor holds the derived token or a flag set by a correct password.
C1_GateGuardsStore ==
    \A v \in Visitors : InRun(v) => gate[v] = "true" /\ (TokenOk(v) \/ FlagOk(v))

C1_Witness ==
    \E v, w \in Visitors :
        /\ pc[v] = "write" /\ TokenOk(v)
        /\ pc[w] = "main" /\ ~TokenOk(w) /\ FlagOk(w)

\* v is at the prompt and holds no valid token
Unauthenticated(v) == pc[v] = "idle" /\ view[v] = "prompt" /\ ~TokenOk(v)

\* C2: from Unauthenticated, a submitted password equal to the configured secret
\* makes the visit Authenticated (the run passes the gate, the flag is set); any
\* other leaves it Unauthenticated with the error shown; both whatever the number
\* of wrong submissions before.
C2_PasswordSubmission ==
    [][\A v \in Visitors, p \in Typed :
          Unauthenticated(v) /\ SubmitPassword(v, p) =>
              IF Some(p) = Secret
              THEN /\ gate'[v] = "true" /\ pc'[v] = "form"
                   /\ auth_success'[v] = Some(TRUE) /\ ~err'[v]
              ELSE /\ gate'[v] = "false" /\ Unauthenticated(v)'
                   /\ auth_success'[v] = Some(FALSE) /\ err'[v]]_vars

C2_Witness ==
    \E v, w \in Visitors :
        /\ InRun(v) /\ tries[v].ok /\ tries[v].wrong >= 2 /\ auth_success[v] = Some(TRUE)
        /\ Unauthenticated(w) /\ err[w] /\ tries[w].wrong >= 2 /\ ~tries[w].ok

\* what the gate would return for v as the session stands
WouldPass(v) == TokenOk(v) \/ auth_success[v] = Some(TRUE)

C9_NoSecretHalts ==
    secrets = None /\ environ = None =>
        /\ rows = {} /\ used = {}
        /\ \A v \in Visitors :
              /\ pc[v] = "idle"
              /\ gate[v] \in {"none", "stop"}
              /\ view[v] \in {"none", "halt"}
              /\ auth_success[v] = None
              /\ ~err[v] /\ ~tries[v].ok

C9_Witness ==
    /\ secrets = None /\ environ = None
    /\ \E v, w \in Visitors :
          /\ view[v] = "halt" /\ gate[v] = "stop" /\ cookie[v] = Some("auth_pw")
          /\ view[w] = "halt" /\ gate[w] = "stop" /\ cookie[w] = None

(* ---- properties of the store ---- *)

Quantity(table, id) == {r.quantity : r \in {x \in table : x.id = id}}

\* v's step is the write of its pending update or delete
WriteStep(v) == pc[v] = "write" /\ pc'[v] # "write"

\* v's step is the form of a run in which add_form was submitted
AddStep(v) == pc[v] = "form" /\ ev[v].kind = "add" /\ ev'[v] # ev[v]

\* C4: every stored quantity is a non-negative integer in every reachable state;
\* the clamp gives max(0, q + delta) for every delta, large negative ones
\* included, and the add form never yields a quantity below 1.
C4_QuantityNonNegative ==
    /\ \A r \in rows : r.quantity \in Nat
    /\ \A q \in 0..MaxQty, d \in (0 - BigDelta)..BigDelta :
          new_quantity(q, d) = (IF q + d < 0 THEN 0 ELSE q + d)
    /\ \A typed \in 0..MaxQty : number_input(typed) >= 1

C4_Witness ==
    \E v, w \in Visitors :
        /\ v # w
        /\ response[v] = 1 /\ pc[v] = "form"
        /\ pc[w] = "write" /\ pend[w].op = "update" /\ pend[w].change = -1
        /\ pend[w].current_quantity > 0
        /\ Quantity(rows, pend[w].item_id) = {0}

\* C5: two concurrent decrements of one row that both read 5 leave 3.  The step
\* is the second write, of a visitor whose read was followed by exactly one other
\* write to the row: the other visitor's decrement from the same reading.
C5_NoLostUpdate ==
    [][\A v \in Visitors :
          WriteStep(v) /\ overlap[v] = "raced" /\ pend[v].current_quantity = 5 =>
              Quantity(rows', pend[v].item_id) = {3}]_vars

\* C6: a decrement that reaches the store while the row's quantity is 0 leaves it 0.
C6_DecrementAtZero ==
    [][\A v \in Visitors :
          /\ WriteStep(v) /\ pend[v].op = "update" /\ pend[v].change = -1
          /\ Quantity(rows, pend[v].item_id) = {0}
          => Quantity(rows', pend[v].item_id) = {0}]_vars

\* the rows an add of form values e may have produced: exactly the submitted
\* category (the new-category text when given), name, notes and quantity q
Submitted(r, e, q) ==
    /\ r.category = (IF e.new_category # "" THEN e.new_category ELSE e.category)
    /\ r.name = e.name
    /\ r.quantity = q
    /\ r.notes = e.notes

\* the step added exactly one row, r, and the list after it shows r
AddedOne(r) ==
    /\ r \notin rows
    /\ rows' = rows \cup {r}
    /\ r.id \notin used
    /\ r \in RowsOf(load_data(rows'))

\* C7, as claimed: an add with an empty name or with quantity 0 leaves the table
\* unchanged; any other adds exactly one row with the submitted values, which the
\* list then shows.
C7_AsClaimed ==
    [][\A v \in Visitors :
          AddStep(v) =>
              IF ev[v].name = "" \/ ev[v].typed = 0
              THEN rows' = rows
              ELSE \E r \in rows' : AddedOne(r) /\ Submitted(r, ev[v], ev[v].typed)]_vars

\* C7, amended: an add with an empty name leaves the table unchanged; an add with
\* a name adds exactly one row with the submitted category (the new-category text
\* when given), name and notes, whose quantity is the value of the quantity input:
\* the number entered when it is at least 1, and never below 1 (an entry of 0 does
\* not reject the add, the input keeps its value 1); the list then shows that row.
C7_AddForm ==
    [][\A v \in Visitors :
          AddStep(v) =>
              IF ev[v].name = ""
              THEN rows' = rows
              ELSE \E r \in rows' :
                      /\ AddedOne(r)
                      /\ r.quantity >= 1
                      /\ Submitted(r, ev[v], IF ev[v].typed >= 1 THEN ev[v].typed ELSE 1)]_vars

C7_Witness ==
    /\ \E r \in rows : /\ r.name = "Salt" /\ r.category = "spice"
                       /\ r.notes = "memo" /\ r.quantity = 1 /\ r.id = 1
    /\ \E r \in rows : /\ r.name = "Soy Sauce" /\ r.category = "food"
                       /\ r.notes = "" /\ r.quantity = 1 /\ r.id = 2
    /\ \E v \in Visitors : pc[v] = "main" /\ tries[v].ok

\* the position of the row with this id in a list (0 if it is not listed)
Pos(items, id) ==
    IF \E i \in 1..Len(items) : items[i].id = id
    THEN CHOOSE i \in 1..Len(items) : items[i].id = id
    ELSE 0

\* C8: the list is exactly the rows in the table, newest first: in every state it
\* has each row once, in strictly descending created_at; a row inserted by a step
\* is at the head of the list after it, before every row inserted earlier; a row
\* deleted by a step is in no list after it, and an id once gone never returns.
C8_ListIsTable ==
    /\ [](LET items == load_data(rows) IN
            /\ Len(items) = Cardinality(rows)
            /\ RowsOf(items) = rows
            /\ \A i, j \in 1..Len(items) : i < j => items[i].created_at > items[j].created_at
            /\ \A i, j \in 1..Len(items) : items[i].id < items[j].id => j < i)
    /\ [][/\ \A r \in rows' \ rows :
                 r.id \notin IdsOf(rows) => load_data(rows')[1] = r
          /\ \A v \in Visitors :
                 WriteStep(v) /\ pend[v].op = "delete" =>
                     Pos(load_data(rows'), pend[v].item_id) = 0
          /\ \A id \in used :
                 Pos(load_data(rows), id) = 0 => Pos(load_data(rows'), id) = 0]_vars

C8_Witness ==
    LET items == load_data(rows) IN
    /\ Len(items) = 2
    /\ items[1].id = 3 /\ items[2].id = 1
    /\ items[1].quantity # items[2].quantity
    /\ 2 \in used
    /\ \E v \in Visitors : pc[v] = "idle" /\ shown[v] = {1, 3}

\* C10: an update or delete whose target id is not in the table when it reaches
\* the store changes nothing and raises nothing: the response is empty, the run
\* reruns as after any write, and the row is not created again.
C10_AbsentTargetNoOp ==
    [][\A v \in Visitors :
          WriteStep(v) /\ pend[v].item_id \notin IdsOf(rows) =>
              /\ rows' = rows
              /\ response'[v] = 0
              /\ pc'[v] = "form" /\ gate'[v] = "true"]_vars

C10_Witness ==
    \E v \in Visitors :
        /\ response[v] = 0 /\ pc[v] = "form"
        /\ \E id \in used : id \notin IdsOf(rows)

====
